---- MODULE Spec2Model ----
(***************************************************************************)
(* ForegroundWatcher (src/src/main.rs): a polling loop that samples the    *)
(* foreground window handle, and on a change of handle resolves the owning *)
(* process and the window title and logs one line.                         *)
(*                                                                         *)
(* Text is modelled as sequences of Unicode code points (UTF-16 code units *)
(* for the raw title buffer), Option<T> as a sequence of length 0 or 1.    *)
(***************************************************************************)
EXTENDS Integers, Sequences, FiniteSets, TLC

\* ------------------------------------------------------------------ bounds
\* Window handles are 1..NumHandles; 0 is the null HWND.
NumHandles == 2
\* Process ids the platform may report are 4242..4241+NumPids; 0 is "no pid".
NumPids == 2
\* Longest window title (UTF-16 code units) the platform holds.
MaxTitleLen == 2
\* The observer records the first MaxPolls polls of a run, then drops the
\* record and lets the run go on unrecorded.
MaxPolls == 2

\* ------------------------------------------------------------------ values
Min(a, b) == IF a <= b THEN a ELSE b

None == << >>
Some(x) == << x >>
IsSome(o) == Len(o) = 1
Unwrap(o) == o[1]

NULL == 0
Handles == 1..NumHandles
Pids == {4241 + i : i \in 1..NumPids}
\* What the clock may read, in seconds after local midnight: 12:34:56.
Times == {45296}
\* The text a window may hold: a prefix of "N", an unpaired high surrogate,
\* "otepad" (UTF-16 code units).
TitleUnits == <<78, 55357, 111, 116, 101, 112, 97, 100>>
Titles == {SubSeq(TitleUnits, 1, n) : n \in 0..Min(MaxTitleLen, Len(TitleUnits))}
\* "/bin/notepad"
Paths == {<<47, 98, 105, 110, 47, 110, 111, 116, 101, 112, 97, 100>>}
ExeOptions == {None} \cup {Some(p) : p \in Paths}

\* ------------------------------------------------------------------ state
VARIABLES
    pc,             \* position of main
    last_hwnd,      \* Option<HWND>, main.rs:72
    system,         \* the sysinfo snapshot: pid -> Option<record>, main.rs:73
    hwnd,           \* local of the iteration, main.rs:76
    pid_value,      \* local Option<u32>, main.rs:79
    process,        \* local Option<record>, main.rs:83
    exe_path,       \* local String, main.rs:84
    window_title,   \* local String, main.rs:87
    timestamp,      \* local formatted time, main.rs:88 / 95
    fg,             \* environment: the platform's foreground window
    steps,          \* observer: platform/snapshot calls of this iteration
    titleCall,      \* observer: <<length reported, count copied>> of the
                    \*   title queries of this iteration, << >> if none ran
    emitted,        \* observer: lines handed to the sink in this iteration
    lastBefore,     \* observer: last_hwnd when this iteration began
    obs,            \* observer: what this poll returned (none before any)
    prevObs,        \* observer: what the previous poll returned
    polls,          \* observer: polls made, counted to MaxPolls + 1
    polled,         \* observer: what each recorded poll returned
    emitLog,        \* observer: [poll, hwnd] of each recorded emission
    unresolved,     \* observer: the handle whose owner pid did not resolve,
                    \*   until a poll returns another handle
    refreshed,      \* observer: what this iteration's refresh met: whether
                    \*   the pid had a record, was alive, and its path
    moved,          \* observer: the focus moved since the last poll
    reverted,       \* observer: this poll returned what the previous poll
                    \*   returned, though the focus moved in between
    frame           \* one call of get_window_text run statement by
                    \*   statement: its position, inputs and locals

locals == <<hwnd, pid_value, process, exe_path, window_title, timestamp>>
history == <<titleCall, lastBefore, obs, prevObs, polls, polled>>
watch == <<unresolved, refreshed, moved, reverted>>
vars == <<pc, last_hwnd, system, hwnd, pid_value, process, exe_path,
          window_title, timestamp, fg, steps, titleCall, emitted, lastBefore, obs,
          prevObs, polls, polled, emitLog, unresolved, refreshed, moved,
          reverted, frame>>

\* ------------------------------------------------------------------ text
RECURSIVE Concat(_)
Concat(ss) == IF ss = << >> THEN << >> ELSE Head(ss) \o Concat(Tail(ss))

\* Display of an unsigned integer: its decimal digits.
RECURSIVE Decimal(_)
Decimal(n) == IF n < 10 THEN <<48 + n>> ELSE Decimal(n \div 10) \o <<48 + (n % 10)>>

TwoDigits(n) == <<48 + (n \div 10), 48 + (n % 10)>>

\* Local::now().format("%Y-%m-%d %H:%M:%S") for a clock t seconds after
\* local midnight of 1970-01-01 (t < 86400).
FormatTimestamp(t) ==
    <<49, 57, 55, 48, 45, 48, 49, 45, 48, 49, 32>>
        \o TwoDigits(t \div 3600) \o <<58>>
        \o TwoDigits((t \div 60) % 60) \o <<58>> \o TwoDigits(t % 60)

\* "程序启动"
StartMessage == <<31243, 24207, 21551, 21160>>
\* "未知路径"
UnknownPath == <<26410, 30693, 36335, 24452>>
\* "未知窗口"
UnknownWindow == <<26410, 30693, 31383, 21475>>

IsHighSurrogate(u) == u >= 55296 /\ u <= 56319
IsLowSurrogate(u) == u >= 56320 /\ u <= 57343

\* String::from_utf16_lossy: a surrogate pair is one scalar, an unpaired
\* surrogate is U+FFFD, anything else is itself.
RECURSIVE Utf16Lossy(_)
Utf16Lossy(b) ==
    IF b = << >> THEN << >>
    ELSE IF IsHighSurrogate(b[1]) /\ Len(b) >= 2 /\ IsLowSurrogate(b[2])
         THEN <<65536 + (b[1] - 55296) * 1024 + (b[2] - 56320)>>
                  \o Utf16Lossy(SubSeq(b, 3, Len(b)))
    ELSE IF IsHighSurrogate(b[1]) \/ IsLowSurrogate(b[1])
         THEN <<65533>> \o Utf16Lossy(Tail(b))
    ELSE <<b[1]>> \o Utf16Lossy(Tail(b))

\* str::trim_end_matches('\u{0}')
RECURSIVE TrimEndNul(_)
TrimEndNul(s) ==
    IF s # << >> /\ s[Len(s)] = 0 THEN TrimEndNul(SubSeq(s, 1, Len(s) - 1)) ELSE s

\* Option::map_or(default, identity)
MapOr(o, default) == IF IsSome(o) THEN Unwrap(o) ELSE default

\* ------------------------------------------------------ platform wrappers
\* GetWindowTextW(hwnd, buffer): copies at most Len(buffer) - 1 units of the
\* window's text `text` and a terminator; returns the count copied.
CopiedCount(text, buflen) == Min(Len(text), buflen - 1)
FilledBuffer(text, buflen) ==
    [i \in 1..buflen |-> IF i <= CopiedCount(text, buflen) THEN text[i] ELSE 0]

\* Mutant of get_window_text: a copy of zero units is not a failure.
get_window_text_empty(reported, text) ==
    LET length == reported + 1
        copied == CopiedCount(text, length)
    IN  IF length = 0 THEN None
        ELSE Some(TrimEndNul(Utf16Lossy(SubSeq(FilledBuffer(text, length), 1, copied))))

\* get_window_text, main.rs:33-51. `reported` is what GetWindowTextLengthW
\* returned, `text` is the window's text when GetWindowTextW ran.
get_window_text(reported, text) ==
    LET length == reported + 1
    IN  IF length = 0 THEN None
        ELSE LET buffer == FilledBuffer(text, length)
                 copied == CopiedCount(text, length)
             IN  IF copied = 0 THEN None
                 ELSE Some(TrimEndNul(Utf16Lossy(SubSeq(buffer, 1, copied))))

\* What the platform returned to get_window_text: the length, and the count
\* copied if GetWindowTextW was called.
get_window_text_returns(reported, text) ==
    IF reported + 1 = 0 THEN <<reported>>
    ELSE <<reported, CopiedCount(text, reported + 1)>>

\* The platform calls get_window_text makes, in order.
get_window_text_calls(reported) ==
    IF reported + 1 = 0 THEN <<"GetWindowTextLengthW">>
    ELSE <<"GetWindowTextLengthW", "alloc", "GetWindowTextW">>

\* GetWindowTextLengthW returns an i32, main.rs:35.
I32Max == 2147483647
I32Min == (-I32Max) - 1
\* The lengths the platform may report to one call: those of the titles,
\* and the largest i32.
ReportedLengths == (0..MaxTitleLen) \cup {I32Max}
\* GetWindowTextLengthW(hwnd) + 1 on i32, main.rs:35: with overflow checks
\* (the default of a debug build) an overflowing sum panics, without them
\* (the default of a release build) it wraps.
AddOne(a, checks) ==
    IF a < I32Max THEN Some(a + 1)
    ELSE IF checks THEN None ELSE Some(I32Min)
\* vec![0u16; length as usize], main.rs:39: a negative i32 converts to a
\* usize above isize::MAX, and the allocation panics (capacity overflow).
VecPanics(length) == length < 0
\* &buffer[..copied as usize], main.rs:46: the slice is bounds-checked.
SlicePanics(copied, buflen) == copied > buflen
\* No call of get_window_text is being followed.
NoFrame ==
    [pc |-> "idle", checks |-> FALSE, reported |-> 0, text |-> << >>,
     length |-> 0, buffer |-> << >>, copied |-> 0, result |-> None]

\* get_process_id, main.rs:54-64. `raw` is what GetWindowThreadProcessId
\* stored in pid.
get_process_id(raw) == IF raw # 0 THEN Some(raw) ELSE None

\* Mutant of get_active_window_handle: a null HWND is a handle like another.
get_active_window_handle_any(h) == Some(h)

\* get_active_window_handle, main.rs:28-30: a null HWND converts to None.
get_active_window_handle(h) == IF h # NULL THEN Some(h) ELSE None

\* ---------------------------------------------------------------- format
\* " | 进程ID: "
LitPid == <<32, 124, 32, 36827, 31243, 73, 68, 58, 32>>
\* " | 窗口标题: "
LitTitle == <<32, 124, 32, 31383, 21475, 26631, 39064, 58, 32>>
\* " | 执行路径: "
LitPath == <<32, 124, 32, 25191, 34892, 36335, 24452, 58, 32>>
\* " 不存在或已结束"
LitDead == <<32, 19981, 23384, 22312, 25110, 24050, 32467, 26463>>

\* Mutant of FormatLive: the title and the path change places.
FormatLiveSwapped(ts, pid, title, path) ==
    Concat(<<ts, LitPid, Decimal(pid), LitTitle, path, LitPath, title>>)

\* format!("{} | 进程ID: {} | 窗口标题: {} | 执行路径: {}", ...), main.rs:89-92
FormatLive(ts, pid, title, path) ==
    Concat(<<ts, LitPid, Decimal(pid), LitTitle, title, LitPath, path>>)

\* format!("{} | 进程ID: {} 不存在或已结束", ...), main.rs:96-99
FormatDead(ts, pid) == Concat(<<ts, LitPid, Decimal(pid), LitDead>>)

\* ------------------------------------------------------------------ init
NoRecord == [p \in Pids |-> None]

ProgramInit ==
    /\ pc = "setup"
    /\ last_hwnd = None
    /\ system = NoRecord
    /\ hwnd = NULL
    /\ pid_value = None
    /\ process = None
    /\ exe_path = << >>
    /\ window_title = << >>
    /\ timestamp = << >>
    /\ fg \in {NULL} \cup Handles
    /\ steps = << >>
    /\ titleCall = << >>
    /\ emitted = << >>
    /\ lastBefore = None
    /\ obs = None
    /\ prevObs = None
    /\ polled = << >>
    /\ emitLog = << >>
    /\ unresolved = None
    /\ refreshed = None
    /\ moved = FALSE
    /\ reverted = FALSE

Init == ProgramInit /\ polls = 0 /\ frame = NoFrame

Recording == polls <= MaxPolls

\* ----------------------------------------------------------------- startup
\* Mutant of SetupLogging: the startup message is written before the error
\* is returned.
SetupLoggingThenStart ==
    /\ pc = "setup"
    /\ \E ok \in BOOLEAN :
          /\ pc' = IF ok THEN "start" ELSE "exit"
          /\ emitted' = IF ok THEN emitted ELSE Append(emitted, StartMessage)
    /\ UNCHANGED <<last_hwnd, system, locals, fg, steps, history, emitLog,
                   watch, frame>>

\* setup_logging()?, main.rs:68 (17-25): TermLogger::init may fail, and the
\* error is returned from main.
SetupLogging ==
    /\ pc = "setup"
    /\ \E ok \in BOOLEAN : pc' = IF ok THEN "start" ELSE "exit"
    /\ UNCHANGED <<last_hwnd, system, locals, fg, steps, emitted, history, emitLog,
                   watch, frame>>

\* info!("程序启动"), main.rs:70
LogStart ==
    /\ pc = "start"
    /\ emitted' = Append(emitted, StartMessage)
    /\ pc' = "init"
    /\ UNCHANGED <<last_hwnd, system, locals, fg, steps, history, emitLog, watch,
                   frame>>

\* let mut last_hwnd = None; let mut system = System::new(); main.rs:72-73
InitLocals ==
    /\ pc = "init"
    /\ last_hwnd' = None
    /\ system' = NoRecord
    /\ pc' = "poll"
    /\ emitted' = << >>
    /\ UNCHANGED <<locals, fg, steps, history, emitLog, watch, frame>>

\* ------------------------------------------------------------------- loop
\* Mutant of Poll: the foreground window is read once for the test and
\* once more for the handle, and the focus may move in between.
PollTwice ==
    /\ pc = "poll"
    /\ LET got == get_active_window_handle(fg)
       IN  /\ \E again \in Handles :
                  hwnd' = IF IsSome(got) THEN again ELSE NULL
           /\ pc' = IF IsSome(got) THEN "compare" ELSE "sleep"
           /\ obs' = Some(fg)
           /\ prevObs' = obs
           /\ polled' = IF polls < MaxPolls THEN Append(polled, fg) ELSE << >>
    /\ emitLog' = IF polls < MaxPolls THEN emitLog ELSE << >>
    /\ polls' = Min(polls + 1, MaxPolls + 1)
    /\ steps' = <<"GetForegroundWindow">>
    /\ lastBefore' = last_hwnd
    /\ unresolved' = IF fg # NULL /\ unresolved # Some(fg) THEN None
                                                            ELSE unresolved
    /\ reverted' = (moved /\ fg # NULL /\ obs = Some(fg))
    /\ moved' = FALSE
    /\ UNCHANGED <<last_hwnd, system, pid_value, process, exe_path,
                   window_title, timestamp, fg, titleCall, emitted, refreshed,
                   frame>>

\* if let Some(hwnd) = get_active_window_handle(), main.rs:76
Poll ==
    /\ pc = "poll"
    /\ LET got == get_active_window_handle(fg)
       IN  /\ hwnd' = IF IsSome(got) THEN Unwrap(got) ELSE NULL
           /\ pc' = IF IsSome(got) THEN "compare" ELSE "sleep"
           /\ obs' = Some(fg)
           /\ prevObs' = obs
           /\ polled' = IF polls < MaxPolls THEN Append(polled, fg) ELSE << >>
    /\ emitLog' = IF polls < MaxPolls THEN emitLog ELSE << >>
    /\ polls' = Min(polls + 1, MaxPolls + 1)
    /\ steps' = <<"GetForegroundWindow">>
    /\ lastBefore' = last_hwnd
    /\ unresolved' = IF fg # NULL /\ unresolved # Some(fg) THEN None
                                                            ELSE unresolved
    /\ reverted' = (moved /\ fg # NULL /\ obs = Some(fg))
    /\ moved' = FALSE
    /\ UNCHANGED <<last_hwnd, system, pid_value, process, exe_path,
                   window_title, timestamp, fg, titleCall, emitted, refreshed,
                   frame>>

\* Mutant of Compare: the handle is not compared with last_hwnd.
CompareAlways ==
    /\ pc = "compare"
    /\ pc' = "store"
    /\ steps' = Append(steps, "compare")
    /\ UNCHANGED <<last_hwnd, system, locals, fg, emitted, history, emitLog,
                   watch, frame>>

\* if Some(hwnd) != last_hwnd, main.rs:77
Compare ==
    /\ pc = "compare"
    /\ pc' = IF Some(hwnd) # last_hwnd THEN "store" ELSE "sleep"
    /\ steps' = Append(steps, "compare")
    /\ UNCHANGED <<last_hwnd, system, locals, fg, emitted, history, emitLog,
                   watch, frame>>

\* Mutant of Store: last_hwnd is not updated.
StoreSkipped ==
    /\ pc = "store"
    /\ pc' = "getpid"
    /\ steps' = Append(steps, "store")
    /\ UNCHANGED <<last_hwnd, system, locals, fg, emitted, history, emitLog,
                   watch, frame>>

\* last_hwnd = Some(hwnd), main.rs:78
Store ==
    /\ pc = "store"
    /\ last_hwnd' = Some(hwnd)
    /\ pc' = "getpid"
    /\ steps' = Append(steps, "store")
    /\ UNCHANGED <<system, locals, fg, emitted, history, emitLog, watch, frame>>

\* Mutant of GetProcessId: with no pid, the store is undone, so that the next
\* poll of the same handle tries again.
GetProcessIdThenRetry ==
    /\ pc = "getpid"
    /\ \E raw \in {0} \cup Pids :
          /\ pid_value' = get_process_id(raw)
          /\ unresolved' = IF IsSome(get_process_id(raw)) THEN unresolved
                                                           ELSE Some(hwnd)
          /\ last_hwnd' = IF IsSome(get_process_id(raw)) THEN last_hwnd
                                                          ELSE lastBefore
          /\ pc' = IF IsSome(get_process_id(raw)) THEN "refresh" ELSE "sleep"
    /\ steps' = Append(steps, "GetWindowThreadProcessId")
    /\ UNCHANGED <<system, hwnd, process, exe_path, window_title,
                   timestamp, fg, emitted, history, emitLog, refreshed, moved,
                   reverted, frame>>

\* Mutant of GetProcessId: with no pid, main returns.
GetProcessIdOrExit ==
    /\ pc = "getpid"
    /\ \E raw \in {0} \cup Pids :
          /\ pid_value' = get_process_id(raw)
          /\ unresolved' = IF IsSome(get_process_id(raw)) THEN unresolved
                                                           ELSE Some(hwnd)
          /\ pc' = IF IsSome(get_process_id(raw)) THEN "refresh" ELSE "exit"
    /\ steps' = Append(steps, "GetWindowThreadProcessId")
    /\ UNCHANGED <<last_hwnd, system, hwnd, process, exe_path, window_title,
                   timestamp, fg, emitted, history, emitLog, refreshed, moved,
                   reverted, frame>>

\* Mutant of GetProcessId: with no pid, the dead-process line is logged.
GetProcessIdElseDead ==
    /\ pc = "getpid"
    /\ \E raw \in {0} \cup Pids :
          /\ pid_value' = get_process_id(raw)
          /\ unresolved' = IF IsSome(get_process_id(raw)) THEN unresolved
                                                           ELSE Some(hwnd)
          /\ pc' = IF IsSome(get_process_id(raw)) THEN "refresh" ELSE "ts_dead"
    /\ steps' = Append(steps, "GetWindowThreadProcessId")
    /\ UNCHANGED <<last_hwnd, system, hwnd, process, exe_path, window_title,
                   timestamp, fg, emitted, history, emitLog, refreshed, moved,
                   reverted, frame>>

\* if let Some(pid_value) = get_process_id(hwnd), main.rs:79. The platform
\* stores any pid, or 0, whatever the handle (it may be stale).
GetProcessId ==
    /\ pc = "getpid"
    /\ \E raw \in {0} \cup Pids :
          /\ pid_value' = get_process_id(raw)
          /\ unresolved' = IF IsSome(get_process_id(raw)) THEN unresolved
                                                           ELSE Some(hwnd)
          /\ pc' = IF IsSome(get_process_id(raw)) THEN "refresh" ELSE "sleep"
    /\ steps' = Append(steps, "GetWindowThreadProcessId")
    /\ UNCHANGED <<last_hwnd, system, hwnd, process, exe_path, window_title,
                   timestamp, fg, emitted, history, emitLog, refreshed, moved,
                   reverted, frame>>

\* Mutant of RefreshOne: the whole snapshot is rescanned, every process
\* sharing the fate of pid.
RefreshAll(snapshot, pid, alive, exe) ==
    [p \in DOMAIN snapshot |-> IF alive THEN Some([exe |-> exe]) ELSE None]

\* Mutant of RefreshOne: remove_dead_processes is false, the record of a
\* process that exited stays.
RefreshOneKeepDead(snapshot, pid, alive, exe) ==
    [snapshot EXCEPT ![pid] = IF alive THEN Some([exe |-> exe]) ELSE @]

\* system.refresh_processes(ProcessesToUpdate::Some(&[pid]), true),
\* main.rs:80-82: the record of pid is renewed if the process is alive (its
\* executable path may be unavailable) and dropped if it is not.
RefreshOne(snapshot, pid, alive, exe) ==
    [snapshot EXCEPT ![pid] = IF alive THEN Some([exe |-> exe]) ELSE None]

Refresh ==
    /\ pc = "refresh"
    /\ \E alive \in BOOLEAN, exe \in ExeOptions :
          /\ system' = RefreshOne(system, Unwrap(pid_value), alive, exe)
          /\ refreshed' = Some([had |-> IsSome(system[Unwrap(pid_value)]),
                                alive |-> alive,
                                exe |-> IF alive THEN exe ELSE None])
    /\ pc' = "lookup"
    /\ steps' = Append(steps, "refresh_processes")
    /\ UNCHANGED <<last_hwnd, locals, fg, emitted, history, emitLog,
                   unresolved, moved, reverted, frame>>

\* if let Some(process) = system.process(pid), main.rs:83
Lookup ==
    /\ pc = "lookup"
    /\ process' = system[Unwrap(pid_value)]
    /\ pc' = IF IsSome(system[Unwrap(pid_value)]) THEN "exe" ELSE "ts_dead"
    /\ steps' = Append(steps, "process")
    /\ UNCHANGED <<last_hwnd, system, hwnd, pid_value, exe_path, window_title,
                   timestamp, fg, emitted, history, emitLog, watch, frame>>

\* Mutant of ResolveExe: a record with no executable path is treated as a
\* process that was not found.
ResolveExeOrDead ==
    /\ pc = "exe"
    /\ exe_path' = MapOr(Unwrap(process).exe, UnknownPath)
    /\ pc' = IF IsSome(Unwrap(process).exe) THEN "title" ELSE "ts_dead"
    /\ steps' = Append(steps, "exe")
    /\ UNCHANGED <<last_hwnd, system, hwnd, pid_value, process, window_title,
                   timestamp, fg, emitted, history, emitLog, watch, frame>>

\* process.exe().map_or("未知路径", to_string_lossy), main.rs:84-86
ResolveExe ==
    /\ pc = "exe"
    /\ exe_path' = MapOr(Unwrap(process).exe, UnknownPath)
    /\ pc' = "title"
    /\ steps' = Append(steps, "exe")
    /\ UNCHANGED <<last_hwnd, system, hwnd, pid_value, process, window_title,
                   timestamp, fg, emitted, history, emitLog, watch, frame>>

\* Mutant of ResolveTitle: an iteration whose title is unavailable logs
\* nothing.
ResolveTitleOrSkip ==
    /\ pc = "title"
    /\ \E reported \in 0..MaxTitleLen, text \in Titles :
          /\ window_title' = MapOr(get_window_text(reported, text), UnknownWindow)
          /\ steps' = steps \o get_window_text_calls(reported)
          /\ titleCall' = get_window_text_returns(reported, text)
          /\ pc' = IF IsSome(get_window_text(reported, text)) THEN "ts_live" ELSE "sleep"
    /\ UNCHANGED <<last_hwnd, system, hwnd, pid_value, process, exe_path,
                   timestamp, fg, emitted, lastBefore, obs, prevObs, polls,
                   polled, emitLog, watch, frame>>

\* get_window_text(hwnd).map_or("未知窗口", |title| title), main.rs:87. The
\* length reported and the text copied are read at two moments: they need
\* not agree, and a stale handle yields 0 and nothing.
\* The lengths reported here are those of titles, up to MaxTitleLen; the
\* call is followed statement by statement, up to the largest i32, by
\* GwtLength .. GwtDecode.
ResolveTitle ==
    /\ pc = "title"
    /\ \E reported \in 0..MaxTitleLen, text \in Titles :
          /\ window_title' = MapOr(get_window_text(reported, text), UnknownWindow)
          /\ steps' = steps \o get_window_text_calls(reported)
          /\ titleCall' = get_window_text_returns(reported, text)
    /\ pc' = "ts_live"
    /\ UNCHANGED <<last_hwnd, system, hwnd, pid_value, process, exe_path,
                   timestamp, fg, emitted, lastBefore, obs, prevObs, polls,
                   polled, emitLog, watch, frame>>

\* let timestamp = Local::now().format(...), main.rs:88
TimestampLive ==
    /\ pc = "ts_live"
    /\ \E t \in Times : timestamp' = FormatTimestamp(t)
    /\ pc' = "emit_live"
    /\ steps' = Append(steps, "now")
    /\ UNCHANGED <<last_hwnd, system, hwnd, pid_value, process, exe_path,
                   window_title, fg, emitted, history, emitLog, watch, frame>>

\* info!(live line), main.rs:89-92
EmitLive ==
    /\ pc = "emit_live"
    /\ emitted' = Append(emitted,
                         FormatLive(timestamp, Unwrap(pid_value), window_title, exe_path))
    /\ emitLog' = IF Recording
                  THEN Append(emitLog, [poll |-> polls, hwnd |-> hwnd])
                  ELSE emitLog
    /\ pc' = "sleep"
    /\ steps' = Append(steps, "info")
    /\ UNCHANGED <<last_hwnd, system, locals, fg, history, watch, frame>>

\* Mutant of TimestampDead: the title is asked for on the dead-process path
\* too.
TimestampDeadWithTitle ==
    /\ pc = "ts_dead"
    /\ \E t \in Times : timestamp' = FormatTimestamp(t)
    /\ pc' = "emit_dead"
    /\ steps' = steps \o <<"GetWindowTextLengthW", "now">>
    /\ UNCHANGED <<last_hwnd, system, hwnd, pid_value, process, exe_path,
                   window_title, fg, emitted, history, emitLog, watch, frame>>

\* let timestamp = Local::now().format(...), main.rs:95
TimestampDead ==
    /\ pc = "ts_dead"
    /\ \E t \in Times : timestamp' = FormatTimestamp(t)
    /\ pc' = "emit_dead"
    /\ steps' = Append(steps, "now")
    /\ UNCHANGED <<last_hwnd, system, hwnd, pid_value, process, exe_path,
                   window_title, fg, emitted, history, emitLog, watch, frame>>

\* Mutant of EmitDead: the live line is logged, with both placeholders.
EmitDeadAsLive ==
    /\ pc = "emit_dead"
    /\ emitted' = Append(emitted,
                         FormatLive(timestamp, Unwrap(pid_value), UnknownWindow, UnknownPath))
    /\ emitLog' = IF Recording
                  THEN Append(emitLog, [poll |-> polls, hwnd |-> hwnd])
                  ELSE emitLog
    /\ pc' = "sleep"
    /\ steps' = Append(steps, "info")
    /\ UNCHANGED <<last_hwnd, system, locals, fg, history, watch, frame>>

\* info!(dead-process line), main.rs:96-99
EmitDead ==
    /\ pc = "emit_dead"
    /\ emitted' = Append(emitted, FormatDead(timestamp, Unwrap(pid_value)))
    /\ emitLog' = IF Recording
                  THEN Append(emitLog, [poll |-> polls, hwnd |-> hwnd])
                  ELSE emitLog
    /\ pc' = "sleep"
    /\ steps' = Append(steps, "info")
    /\ UNCHANGED <<last_hwnd, system, locals, fg, history, watch, frame>>

\* Mutant of Sleep: LastSeenHandle does not survive the iteration.
SleepForgets ==
    /\ pc = "sleep"
    /\ pc' = "poll"
    /\ last_hwnd' = None
    /\ hwnd' = NULL
    /\ pid_value' = None
    /\ process' = None
    /\ exe_path' = << >>
    /\ window_title' = << >>
    /\ timestamp' = << >>
    /\ steps' = << >>
    /\ titleCall' = << >>
    /\ emitted' = << >>
    /\ refreshed' = None
    /\ UNCHANGED <<system, fg, lastBefore, obs, prevObs, polls, polled,
                   emitLog, unresolved, moved, reverted, frame>>

\* sleep(Duration::from_millis(10)), main.rs:104; the iteration's locals go
\* out of scope, and the observer's record of the iteration is closed.
Sleep ==
    /\ pc = "sleep"
    /\ pc' = "poll"
    /\ hwnd' = NULL
    /\ pid_value' = None
    /\ process' = None
    /\ exe_path' = << >>
    /\ window_title' = << >>
    /\ timestamp' = << >>
    /\ steps' = << >>
    /\ titleCall' = << >>
    /\ emitted' = << >>
    /\ refreshed' = None
    /\ UNCHANGED <<last_hwnd, system, fg, lastBefore, obs, prevObs, polls,
                   polled, emitLog, unresolved, moved, reverted, frame>>

\* ------------------------------------------------------------ environment
\* Mutant of FocusChange: the program is told of the change, and forgets
\* LastSeenHandle.
FocusChangeResets ==
    /\ pc # "exit"
    /\ \E h \in ({NULL} \cup Handles) \ {fg} : fg' = h
    /\ moved' = TRUE
    /\ last_hwnd' = None
    /\ UNCHANGED <<pc, system, locals, steps, emitted, history, emitLog,
                   unresolved, refreshed, reverted, frame>>

\* The user, or another program, moves the focus: at any moment the
\* foreground window becomes another window, or none.
FocusChange ==
    /\ pc # "exit"
    /\ \E h \in ({NULL} \cup Handles) \ {fg} : fg' = h
    /\ moved' = TRUE
    /\ UNCHANGED <<pc, last_hwnd, system, locals, steps, emitted, history, emitLog,
                   unresolved, refreshed, reverted, frame>>

\* ------------------------------------- get_window_text, by statement
\* One call of get_window_text, main.rs:33-51, followed statement by
\* statement, for every length the platform may report, the largest i32
\* included; frame.checks tells whether the build checks overflow.
others == <<pc, last_hwnd, system, locals, fg, steps, emitted, history,
            emitLog, watch>>

\* let length = GetWindowTextLengthW(hwnd) + 1, main.rs:35
GwtLength ==
    /\ frame.pc = "length"
    /\ LET sum == AddOne(frame.reported, frame.checks)
       IN  frame' = IF IsSome(sum)
                    THEN [frame EXCEPT !.pc = "test_length", !.length = Unwrap(sum)]
                    ELSE [frame EXCEPT !.pc = "panic"]
    /\ UNCHANGED others

\* if length == 0 { return None; }, main.rs:36-38
GwtTestLength ==
    /\ frame.pc = "test_length"
    /\ frame' = IF frame.length = 0
                THEN [frame EXCEPT !.pc = "return", !.result = None]
                ELSE [frame EXCEPT !.pc = "alloc"]
    /\ UNCHANGED others

\* let mut buffer = vec![0u16; length as usize], main.rs:39
GwtAlloc ==
    /\ frame.pc = "alloc"
    /\ frame' = IF VecPanics(frame.length)
                THEN [frame EXCEPT !.pc = "panic"]
                ELSE [frame EXCEPT !.pc = "copy",
                                   !.buffer = [i \in 1..frame.length |-> 0]]
    /\ UNCHANGED others

\* let copied = GetWindowTextW(hwnd, &mut buffer), main.rs:40
GwtCopy ==
    /\ frame.pc = "copy"
    /\ frame' = [frame EXCEPT
                    !.pc = "test_copied",
                    !.copied = CopiedCount(frame.text, Len(frame.buffer)),
                    !.buffer = FilledBuffer(frame.text, Len(frame.buffer))]
    /\ UNCHANGED others

\* if copied == 0 { return None; }, main.rs:41-43
GwtTestCopied ==
    /\ frame.pc = "test_copied"
    /\ frame' = IF frame.copied = 0
                THEN [frame EXCEPT !.pc = "return", !.result = None]
                ELSE [frame EXCEPT !.pc = "decode"]
    /\ UNCHANGED others

\* Some(String::from_utf16_lossy(&buffer[..copied as usize])
\*          .trim_end_matches('\u{0}').to_string()), main.rs:45-49
GwtDecode ==
    /\ frame.pc = "decode"
    /\ frame' = IF SlicePanics(frame.copied, Len(frame.buffer))
                THEN [frame EXCEPT !.pc = "panic"]
                ELSE [frame EXCEPT
                         !.pc = "return",
                         !.result = Some(TrimEndNul(Utf16Lossy(
                                        SubSeq(frame.buffer, 1, frame.copied))))]
    /\ UNCHANGED others

\* ------------------------------------------------------------- properties
\* The iteration's body has run; the observer holds its whole record.
IterationDone == pc = "sleep"
Called(name) == \E i \in DOMAIN steps : steps[i] = name
\* This poll returned a handle.
SawHandle == obs # None /\ Unwrap(obs) # NULL
\* The handle this poll returned differs from LastSeenHandle as compared.
Changed == SawHandle /\ obs # lastBefore
\* This poll returned the handle the previous poll returned.
Repeated == SawHandle /\ prevObs = obs
PidResolved == Called("GetWindowThreadProcessId") /\ IsSome(pid_value)
PidUnresolved == Called("GetWindowThreadProcessId") /\ pid_value = None

\* C1, as stated: a poll emits an event if and only if the handle it observed
\* differs from LastSeenHandle at the comparison.
C1_EventIffChanged ==
    IterationDone => ((emitted # << >>) <=> Changed)

\* C1, amended: a poll emits an event, and exactly one, if and only if the
\* handle it observed differs from LastSeenHandle at the comparison and the
\* handle's owner pid resolved; a poll that repeats the previous poll's
\* handle emits none.
C1_EventIffChangedAndPid ==
    IterationDone =>
        /\ Len(emitted) = (IF Changed /\ PidResolved THEN 1 ELSE 0)
        /\ (Repeated => emitted = << >>)

C1_Witness ==
    /\ IterationDone /\ Changed /\ PidResolved /\ Len(emitted) = 1
    /\ lastBefore # None

\* C2: in a run of polls observing the same handle h, the polls after the
\* first emit nothing and leave LastSeenHandle = h; any poll emits at most one
\* event, and none if h was LastSeenHandle already.
C2_RepeatsAreSilent ==
    /\ (Repeated => lastBefore = obs /\ last_hwnd = obs)
    /\ Len(emitted) <= 1
    /\ IterationDone /\ SawHandle /\ lastBefore = obs
           => emitted = << >> /\ last_hwnd = obs
    /\ IterationDone /\ Repeated
           => emitted = << >> /\ steps = <<"GetForegroundWindow", "compare">>

C2_Witness ==
    /\ IterationDone /\ Repeated /\ emitted = << >>
    /\ Len(emitLog) = 1 /\ emitLog[1].poll = 1 /\ polls = 2

\* C3: when the handle changed and the owner pid did not resolve, the poll
\* emits nothing, and neither refreshes nor reads the process snapshot.
C3_NoPidNoEvent ==
    PidUnresolved =>
        /\ IterationDone
        /\ Changed
        /\ emitted = << >>
        /\ ~Called("refresh_processes")
        /\ ~Called("process")

C3_Witness == IterationDone /\ Changed /\ PidUnresolved /\ emitted = << >>

\* C4, as stated: every poll that detects a changed handle emits an event,
\* whichever resolution step fails.
C4_ChangedAlwaysEmits ==
    IterationDone /\ Changed => Len(emitted) = 1

\* C4, amended: every poll that detects a changed handle whose owner pid
\* resolved emits exactly one event, whichever of the later resolution steps
\* (process lookup, executable path, title) fails; an unresolved owner pid
\* is the one failure that skips the event.
C4_ResolvedPidAlwaysEmits ==
    IterationDone =>
        /\ (Changed /\ PidResolved => Len(emitted) = 1)
        /\ (Len(emitted) = 0 /\ Changed => PidUnresolved)

C4_Witness ==
    /\ IterationDone /\ Changed /\ PidResolved
    /\ window_title = UnknownWindow /\ exe_path = UnknownPath
    /\ Len(emitted) = 1

\* C5: an iteration whose poll reports no foreground window emits nothing,
\* makes no other query, and leaves LastSeenHandle as it was.
C5_NoWindowNoEffect ==
    obs = Some(NULL) =>
        /\ pc \in {"sleep", "poll"}
        /\ last_hwnd = lastBefore
        /\ emitted = << >>
        /\ (IterationDone => steps = <<"GetForegroundWindow">>)

C5_Witness ==
    IterationDone /\ obs = Some(NULL) /\ last_hwnd # None /\ lastBefore = last_hwnd

HasInfix(l, lit) ==
    \E i \in 0..(Len(l) - Len(lit)) : SubSeq(l, i + 1, i + Len(lit)) = lit

\* C6: after the refresh, a lookup that finds no record makes the poll emit
\* exactly one event, the dead-process line of timestamp and pid with no
\* title and no path field; the live line is emitted if and only if the
\* lookup found a record.
C6_LookupDecidesVariant ==
    /\ IterationDone /\ emitted # << >> => Called("process")
    /\ Called("process") =>
          /\ Changed /\ PidResolved
          /\ Called("refresh_processes")
          /\ process = system[Unwrap(pid_value)]
          /\ process = None =>
                /\ pc \in {"ts_dead", "emit_dead", "sleep"}
                /\ ~Called("exe") /\ titleCall = << >>
                /\ IterationDone =>
                      /\ emitted = << timestamp \o LitPid
                                          \o Decimal(Unwrap(pid_value)) \o LitDead >>
                      /\ ~HasInfix(emitted[1], LitTitle)
                      /\ ~HasInfix(emitted[1], LitPath)
          /\ IsSome(process) =>
                /\ pc \in {"exe", "title", "ts_live", "emit_live", "sleep"}
                /\ IterationDone =>
                      /\ Len(emitted) = 1
                      /\ HasInfix(emitted[1], LitTitle)
                      /\ HasInfix(emitted[1], LitPath)
                      /\ ~HasInfix(emitted[1], LitDead)

C6_Witness ==
    /\ IterationDone /\ Called("process") /\ process = None
    /\ Len(emitted) = 1 /\ HasInfix(emitted[1], LitDead)

\* C7: the title field of a live event is never empty, and is the placeholder
\* whenever the title length reported was zero or the count copied was zero.
C7_TitlePlaceholder ==
    titleCall # << >> =>
        /\ window_title # << >>
        /\ (titleCall[1] = 0 \/ (Len(titleCall) = 2 /\ titleCall[2] = 0))
               => window_title = UnknownWindow
        /\ IterationDone =>
               emitted = << Concat(<<timestamp, LitPid, Decimal(Unwrap(pid_value)),
                                     LitTitle, window_title, LitPath, exe_path>>) >>

C7_Witness ==
    /\ IterationDone /\ titleCall = <<2, 0>>
    /\ Len(emitted) = 1 /\ HasInfix(emitted[1], LitTitle \o UnknownWindow \o LitPath)

\* C8: when the process is found, the line handed to the sink is
\* "<timestamp> | 进程ID: <pid> | 窗口标题: <title> | 执行路径: <path>", with
\* the pid resolved for the handle in this same poll.
C8_LiveLineFormat ==
    IterationDone /\ IsSome(process) =>
        /\ PidResolved
        /\ emitted =
             << timestamp
                  \o <<32, 124, 32, 36827, 31243, 73, 68, 58, 32>>
                  \o Decimal(Unwrap(pid_value))
                  \o <<32, 124, 32, 31383, 21475, 26631, 39064, 58, 32>>
                  \o window_title
                  \o <<32, 124, 32, 25191, 34892, 36335, 24452, 58, 32>>
                  \o exe_path >>

\* "1970-01-01 12:34:56 | 进程ID: 4242 | 窗口标题: N | 执行路径: /bin/notepad"
C8_Witness ==
    /\ IterationDone
    /\ emitted = << <<
          49, 57, 55, 48, 45, 48, 49, 45, 48, 49, 32, 49,
          50, 58, 51, 52, 58, 53, 54, 32, 124, 32, 36827, 31243,
          73, 68, 58, 32, 52, 50, 52, 50, 32, 124, 32, 31383,
          21475, 26631, 39064, 58, 32, 78, 32, 124, 32, 25191, 34892, 36335,
          24452, 58, 32, 47, 98, 105, 110, 47, 110, 111, 116, 101,
          112, 97, 100 >> >>

\* C9: events are emitted in the order the changes are observed: each
\* recorded emission is for the handle its own poll returned, the emissions'
\* polls increase, and an iteration that is to emit has emitted when it ends,
\* before the next poll.
C9_EventsInPollOrder ==
    Recording =>
        /\ \A k \in DOMAIN emitLog :
              /\ emitLog[k].poll \in DOMAIN polled
              /\ polled[emitLog[k].poll] = emitLog[k].hwnd
              /\ k > 1 => emitLog[k - 1].poll < emitLog[k].poll
        /\ IterationDone /\ Changed /\ PidResolved =>
              /\ emitLog # << >>
              /\ emitLog[Len(emitLog)] = [poll |-> polls, hwnd |-> Unwrap(obs)]
        /\ pc = "poll" => emitted = << >>

C9_Witness ==
    /\ IterationDone /\ polled = <<2, 1>>
    /\ emitLog = << [poll |-> 1, hwnd |-> 2], [poll |-> 2, hwnd |-> 1] >>

\* C10: once entered, the loop never ends: the only way back to the poll is
\* through the sleep step, the only step after the sleep is the poll, every
\* iteration reaches the sleep whatever the queries return, and a poll
\* follows.
InLoop == pc \notin {"setup", "start", "init", "exit"}

C11_LastSeenHandle ==
    /\ [](SawHandle /\ pc \notin {"compare", "store"} => last_hwnd = obs)
    /\ [](IterationDone /\ Changed => last_hwnd = obs /\ Called("store"))
    /\ [](last_hwnd = None /\ InLoop => lastBefore = None /\ emitted = << >>)
    /\ [][last_hwnd # None => last_hwnd' # None]_vars
    /\ [][last_hwnd' # last_hwnd =>
            pc = "store" /\ last_hwnd' = obs /\ last_hwnd' = Some(hwnd)]_vars

C11_Witness ==
    /\ IterationDone /\ Changed /\ PidUnresolved
    /\ lastBefore # None /\ lastBefore # obs /\ last_hwnd = obs

\* C12: no retry. While the handle h whose owner pid did not resolve is the
\* only handle polled since (unresolved = Some(h)), LastSeenHandle stays h,
\* every poll of h stops at the comparison, the owner pid is not asked
\* again whatever it would answer, and no event is emitted; an event is
\* emitted only by a poll whose handle differs from LastSeenHandle.
C12_NoRetry ==
    /\ unresolved # None =>
           /\ last_hwnd = unresolved
           /\ emitted = << >>
           /\ pc \in {"sleep", "poll", "compare"}
    /\ IterationDone /\ unresolved # None /\ obs = unresolved /\ ~PidUnresolved
           => steps = <<"GetForegroundWindow", "compare">>
    /\ emitted # << >> /\ InLoop => Changed /\ unresolved # obs

C12_Witness ==
    /\ IterationDone /\ SawHandle /\ unresolved = obs /\ prevObs = obs
    /\ steps = <<"GetForegroundWindow", "compare">> /\ emitted = << >>
    /\ polls = 2 /\ emitLog = << >>

\* C13: when the logging setup fails, main returns the error before the
\* loop: the program has stopped for good, having made no platform query,
\* never set LastSeenHandle and emitted nothing, the startup message
\* included; and main returns in no other way.
C13_SetupFailureExits ==
    /\ [](pc = "exit" =>
            /\ steps = << >> /\ obs = None /\ polls = 0 /\ polled = << >>
            /\ last_hwnd = None /\ lastBefore = None
            /\ emitted = << >> /\ emitLog = << >>
            /\ system = NoRecord /\ refreshed = None)
    /\ [][pc = "exit" => vars' = vars]_vars
    /\ [][pc' = "exit" /\ pc # "exit" => pc = "setup"]_vars

C13_Witness == pc = "exit" /\ emitted = << >> /\ last_hwnd = None /\ steps = << >>

\* C14: the snapshot changes only at the refresh step of a poll whose handle
\* changed and whose owner pid resolved, and only in the record of that
\* pid; a refresh happens only in such a poll; the snapshot is read only
\* right after a refresh in the same iteration; a poll of an unchanged
\* handle neither refreshes nor reads the snapshot.
C14_TargetedRefresh ==
    /\ [][system' # system =>
            /\ pc = "refresh" /\ Changed /\ PidResolved
            /\ \A p \in Pids \ {Unwrap(pid_value)} : system'[p] = system[p]]_vars
    /\ []((refreshed # None) <=> Called("refresh_processes"))
    /\ [](Called("refresh_processes") => Changed /\ PidResolved)
    /\ [](Called("process") =>
            /\ Called("refresh_processes")
            /\ \A i, j \in DOMAIN steps :
                   steps[i] = "process" /\ steps[j] = "refresh_processes"
                       => j + 1 = i)
    /\ [](~Changed /\ InLoop =>
            ~Called("refresh_processes") /\ ~Called("process"))

C14_Witness ==
    /\ IterationDone /\ Changed /\ PidResolved /\ Called("process")
    /\ system[Unwrap(pid_value)] = None
    /\ Unwrap(refreshed).had
    /\ \E p \in Pids \ {Unwrap(pid_value)} : IsSome(system[p])

\* C15, as stated: get_window_text returns none whenever the platform
\* reports a title length of zero, and then allocates no buffer and does
\* not call the retrieval query; the retrieval query is made only for a
\* non-zero reported length; a retrieval that copies nothing yields none.
C15_ZeroLengthReturnsEarly ==
    titleCall # << >> =>
        /\ titleCall[1] = 0 =>
               /\ window_title = UnknownWindow
               /\ ~Called("alloc")
               /\ ~Called("GetWindowTextW")
               /\ Len(titleCall) = 1
        /\ Called("GetWindowTextW") => titleCall[1] # 0
        /\ Len(titleCall) = 2 /\ titleCall[2] = 0 => window_title = UnknownWindow

\* C16: when the record found has no executable path, the path is the
\* placeholder "未知路径", the iteration goes on along the live path, and
\* the one event it emits is the live line, with the pid and the title,
\* ending in the path field with the placeholder; it is not the
\* dead-process line.
C16_PathPlaceholder ==
    Called("exe") /\ Unwrap(process).exe = None =>
        /\ exe_path = UnknownPath
        /\ pc \in {"title", "ts_live", "emit_live", "sleep"}
        /\ IterationDone =>
               /\ emitted = <<Concat(<<timestamp, LitPid,
                                       Decimal(Unwrap(pid_value)), LitTitle,
                                       window_title, LitPath, UnknownPath>>)>>
               /\ ~HasInfix(emitted[1], LitDead)
               /\ window_title # << >>

C16_Witness ==
    /\ IterationDone /\ Called("exe") /\ Unwrap(process).exe = None
    /\ Len(emitted) = 1 /\ HasInfix(emitted[1], LitPath \o UnknownPath)
    /\ window_title # UnknownWindow

\* C17: the record the lookup returns is the one this iteration's refresh
\* left: it is found if and only if the process was alive at that refresh,
\* with the executable path read at that refresh, whatever the snapshot
\* held before. The event is the dead-process line if and only if the
\* process was not alive at the refresh, also when an earlier iteration
\* had recorded it alive; the path of a live line is this refresh's path.
C17_NoStaleRecord ==
    Called("process") =>
        /\ refreshed # None
        /\ IsSome(process) <=> Unwrap(refreshed).alive
        /\ IsSome(process) => Unwrap(process).exe = Unwrap(refreshed).exe
        /\ Called("exe") => exe_path = MapOr(Unwrap(refreshed).exe, UnknownPath)
        /\ IterationDone =>
               /\ Len(emitted) = 1
               /\ emitted[1] =
                      IF Unwrap(refreshed).alive
                      THEN FormatLive(timestamp, Unwrap(pid_value), window_title,
                                      MapOr(Unwrap(refreshed).exe, UnknownPath))
                      ELSE FormatDead(timestamp, Unwrap(pid_value))
               /\ HasInfix(emitted[1], LitDead) <=> ~Unwrap(refreshed).alive
               /\ HasInfix(emitted[1], LitPath) <=> Unwrap(refreshed).alive

C17_Witness ==
    /\ IterationDone /\ Called("process") /\ refreshed # None
    /\ Unwrap(refreshed).had /\ ~Unwrap(refreshed).alive
    /\ emitted = <<FormatDead(timestamp, Unwrap(pid_value))>>

\* C18, as stated: for every return value of the platform within its
\* contract (a reported title length of 0 or more, a copied count of at
\* most the buffer's length minus one), get_window_text does not panic: the
\* buffer has the reported length plus one units, and the copied count
\* that slices it is at most that.
C18_NeverPanics ==
    /\ frame.pc # "panic"
    /\ frame.pc \in {"copy", "test_copied", "decode"} =>
           /\ Len(frame.buffer) = frame.reported + 1
           /\ frame.copied <= Len(frame.buffer) - 1

\* C19: a poll that returns the handle the previous poll returned, the
\* focus having moved away and back in between, behaves as a repeat: it
\* stops at the comparison, emits nothing and leaves LastSeenHandle at
\* that handle. A move of the focus changes nothing of the program: only
\* what a poll samples counts.
C19_RevertedFocusIsSilent ==
    /\ [](reverted =>
            /\ SawHandle /\ prevObs = obs
            /\ lastBefore = obs /\ last_hwnd = obs
            /\ emitted = << >>
            /\ pc \in {"compare", "sleep", "poll"}
            /\ IterationDone => steps = <<"GetForegroundWindow", "compare">>)
    /\ [][fg' # fg =>
            /\ pc' = pc /\ last_hwnd' = last_hwnd /\ system' = system
            /\ locals' = locals /\ steps' = steps /\ emitted' = emitted
            /\ emitLog' = emitLog]_vars

C19_Witness ==
    /\ IterationDone /\ reverted /\ SawHandle
    /\ emitted = << >> /\ last_hwnd = obs /\ polls = 2 /\ Len(emitLog) = 1

IsPrefix(s, t) == Len(s) <= Len(t) /\ s = SubSeq(t, 1, Len(s))
\* The calls of an iteration that emits the live line, in order.
LiveOrder ==
    <<"GetForegroundWindow", "compare", "store", "GetWindowThreadProcessId",
      "refresh_processes", "process", "exe", "GetWindowTextLengthW", "alloc",
      "GetWindowTextW", "now", "info">>
\* The calls of an iteration that emits the dead-process line, in order.
DeadOrder ==
    <<"GetForegroundWindow", "compare", "store", "GetWindowThreadProcessId",
      "refresh_processes", "process", "now", "info">>

\* C20: the steps of an iteration come in one order: store LastSeenHandle,
\* resolve the owner pid, refresh, look up, then with a record the
\* executable path and the title, then the timestamp and the emission.
\* From the store on LastSeenHandle is the new handle, so it is before any
\* resolution; the title is asked for only with a pid and a record.
C20_FixedOrder ==
    /\ IsPrefix(steps, LiveOrder) \/ IsPrefix(steps, DeadOrder)
    /\ pc = "store" => steps = SubSeq(LiveOrder, 1, 2) /\ last_hwnd = lastBefore
    /\ Called("store") => last_hwnd = Some(hwnd) /\ last_hwnd = obs
    /\ Called("GetWindowTextLengthW") \/ titleCall # << >> =>
           IsSome(pid_value) /\ IsSome(process) /\ Called("exe")
    /\ pc \in {"ts_dead", "emit_dead"} \/ PidUnresolved =>
           titleCall = << >> /\ window_title = << >>
    /\ IterationDone /\ Changed =>
           steps = IF PidUnresolved THEN SubSeq(LiveOrder, 1, 4)
                   ELSE IF IsSome(process) THEN LiveOrder ELSE DeadOrder

C20_Witness ==
    /\ IterationDone /\ Changed /\ steps = LiveOrder
    /\ lastBefore # None /\ last_hwnd = Some(hwnd) /\ Len(emitted) = 1

\* ---------------------------------------------------------- specification
Step ==
    \/ SetupLogging
    \/ LogStart
    \/ InitLocals
    \/ Poll
    \/ Compare
    \/ Store
    \/ GetProcessId
    \/ Refresh
    \/ Lookup
    \/ ResolveExe
    \/ ResolveTitle
    \/ TimestampLive
    \/ EmitLive
    \/ TimestampDead
    \/ EmitDead
    \/ Sleep

Next == Step \/ FocusChange

Spec == Init /\ [][Next]_vars

\* The loop's thread is always scheduled: sleep returns after its interval
\* and every platform query returns. The run is not recorded.
LiveInit == ProgramInit /\ polls = MaxPolls + 1 /\ frame = NoFrame
LiveSpec == LiveInit /\ [][Next]_vars /\ WF_vars(Step)

\* get_window_text alone: the call's inputs are what the platform reports as
\* the title's length, the window's text when it is copied, and whether
\* the build checks overflow. main does not run.
TitleInit ==
    /\ ProgramInit /\ fg = NULL /\ polls = 0
    /\ frame \in {[NoFrame EXCEPT !.pc = "length", !.checks = c,
                                  !.reported = r, !.text = t] :
                       c \in BOOLEAN, r \in ReportedLengths, t \in Titles}

TitleNext ==
    \/ GwtLength
    \/ GwtTestLength
    \/ GwtAlloc
    \/ GwtCopy
    \/ GwtTestCopied
    \/ GwtDecode

TitleSpec == TitleInit /\ [][TitleNext]_vars
====
